---- MODULE Spec2Model ----
(***************************************************************************)
(* ghttpd: a static-file HTTP daemon.  One acceptor goroutine hands every  *)
(* accepted connection over an unbuffered channel to a fixed pool of       *)
(* worker goroutines; each worker runs handleConnection                    *)
(* (parse -> validate -> resolve -> serve -> close) on it.                 *)
(*                                                                         *)
(* Strings are sequences of byte values (Go strings are byte sequences),   *)
(* so splitting, prefix tests and percent-decoding are computed the way    *)
(* the Go code computes them.                                              *)
(***************************************************************************)
EXTENDS Integers, Sequences, FiniteSets, TLC

VARIABLES
    workers,   \* the -w flag, read-only after startup           (ghttpd.go:23,30)
    proc,      \* "running", or how the process ended: "fatal" / "panic"
    apc,       \* position of the accept loop                     (ghttpd.go:57-66)
    aconn,     \* conn returned by the last Accept (0 = nil)      (ghttpd.go:59)
    aerr,      \* err returned by the last Accept                 (ghttpd.go:59)
    naccepted, \* number of connections accepted so far
    wpc,       \* per worker: "recv" (blocked on connChan) or "handle"
    wconn,     \* per worker: the connection it is handling (0 = none)
    conn       \* per connection: the handler's view and the bytes on the wire

vars == <<workers, proc, apc, aconn, aerr, naccepted, wpc, wconn, conn>>

----------------------------------------------------------------------------
(* Bounds of the model. *)

MaxWorkers == 2
MaxConns == 2
MaxPathLen == 3

----------------------------------------------------------------------------
(* Byte strings. *)

SP == 32
LF == 10
PERCENT == 37
SLASH == 47
DOT == 46

sGET == <<71, 69, 84>>
sHTTP == <<72, 84, 84, 80>>
sHTTP11 == <<72, 84, 84, 80, 47, 49, 46, 49>>
sHTTP10 == <<72, 84, 84, 80, 47, 49, 46, 48>>
sCRLF == <<13, 10>>

\* strings.HasPrefix
HasPrefix(s, prefix) ==
    /\ Len(s) >= Len(prefix)
    /\ SubSeq(s, 1, Len(prefix)) = prefix

\* strings.IndexByte, 1-based; 0 when c does not occur in s
IndexByte(s, c) ==
    IF \E i \in 1..Len(s) : s[i] = c
    THEN CHOOSE i \in 1..Len(s) : s[i] = c /\ \A j \in 1..(i - 1) : s[j] # c
    ELSE 0

\* (strings.Fields: cut at runs of white space, no empty pieces)
RECURSIVE SplitFields(_, _)
SplitFields(s, sep) ==
    LET ws(c) == c \in {9, 10, 11, 12, 13, 32}
    IN  IF s = <<>> THEN <<>>
        ELSE IF ws(s[1]) THEN SplitFields(Tail(s), sep)
        ELSE LET n == CHOOSE k \in 1..Len(s) :
                        /\ \A j \in 1..k : ~ws(s[j])
                        /\ k = Len(s) \/ ws(s[k + 1])
             IN  <<SubSeq(s, 1, n)>> \o SplitFields(SubSeq(s, n + 1, Len(s)), sep)

\* strings.Split(s, sep) for a one-byte separator: cut at EVERY occurrence,
\* so n separators give n+1 pieces (empty pieces included).
RECURSIVE Split(_, _)
Split(s, sep) ==
    LET i == IndexByte(s, sep)
    IN  IF i = 0 THEN <<s>>
        ELSE <<SubSeq(s, 1, i - 1)>> \o Split(SubSeq(s, i + 1, Len(s)), sep)

\* strings.Join(elems, sep) for a one-byte separator
RECURSIVE JoinWith(_, _)
JoinWith(elems, sep) ==
    IF elems = <<>> THEN <<>>
    ELSE IF Len(elems) = 1 THEN elems[1]
    ELSE elems[1] \o <<sep>> \o JoinWith(Tail(elems), sep)

\* (the end of the stream taken as the end of the line)
ReadStringToEnd(in, delim) ==
    LET i == IndexByte(in.data, delim)
    IN  IF i = 0 THEN [line |-> in.data, err |-> "nil"]
        ELSE [line |-> SubSeq(in.data, 1, i), err |-> "nil"]

\* bufio.Reader.ReadString(delim): the bytes up to and including the first
\* delim; when the stream ends (EOF, or the deadline expires) before a delim
\* it returns what it has read together with the error.
ReadString(in, delim) ==
    LET i == IndexByte(in.data, delim)
    IN  IF i = 0 THEN [line |-> in.data, err |-> in.ending]
        ELSE [line |-> SubSeq(in.data, 1, i), err |-> "nil"]

----------------------------------------------------------------------------
(* net/url.PathUnescape *)

\* net/url ishex
ishex(c) ==
    \/ 48 <= c /\ c <= 57
    \/ 97 <= c /\ c <= 102
    \/ 65 <= c /\ c <= 70

\* net/url unhex
unhex(c) ==
    IF 48 <= c /\ c <= 57 THEN c - 48
    ELSE IF 97 <= c /\ c <= 102 THEN c - 97 + 10
    ELSE IF 65 <= c /\ c <= 70 THEN c - 65 + 10
    ELSE 0

\* (the bound of the first pass off by one: an escape ending the string fails)
RECURSIVE EscapesOKOffByOne(_, _)
EscapesOKOffByOne(s, i) ==
    IF i > Len(s) THEN TRUE
    ELSE IF s[i] = PERCENT
         THEN IF i + 2 >= Len(s) \/ ~ishex(s[i + 1]) \/ ~ishex(s[i + 2])
              THEN FALSE
              ELSE EscapesOKOffByOne(s, i + 3)
         ELSE EscapesOKOffByOne(s, i + 1)

\* First pass of url.unescape (i is 1-based): every '%' must be followed by
\* two hex digits.  Go: i+2 >= len(s) || !ishex(s[i+1]) || !ishex(s[i+2]).
RECURSIVE EscapesOK(_, _)
EscapesOK(s, i) ==
    IF i > Len(s) THEN TRUE
    ELSE IF s[i] = PERCENT
         THEN IF i + 2 > Len(s) \/ ~ishex(s[i + 1]) \/ ~ishex(s[i + 2])
              THEN FALSE
              ELSE EscapesOK(s, i + 3)
         ELSE EscapesOK(s, i + 1)

\* Second pass of url.unescape: %XY becomes the byte unhex(X)<<4 | unhex(Y);
\* in path mode '+' and every other byte is copied.
RECURSIVE Unescaped(_, _)
Unescaped(s, i) ==
    IF i > Len(s) THEN <<>>
    ELSE IF s[i] = PERCENT
         THEN <<16 * unhex(s[i + 1]) + unhex(s[i + 2])>> \o Unescaped(s, i + 3)
         ELSE <<s[i]>> \o Unescaped(s, i + 1)

PathUnescape(s) ==
    IF EscapesOK(s, 1)
    THEN [path |-> Unescaped(s, 1), err |-> "nil"]
    ELSE [path |-> <<>>, err |-> "invalid URL escape"]

----------------------------------------------------------------------------
(* parseRequest and validateRequest *)

parseRequest(in) ==
    LET rd == ReadString(in, LF)
        parts == Split(rd.line, SP)
        un == PathUnescape(parts[2])
        fail(e) == [method |-> <<>>, path |-> <<>>, version |-> <<>>, err |-> e]
    IN  IF rd.err # "nil" THEN fail("invalid request format")
        ELSE IF Len(parts) # 3 THEN fail("invalid Request line")
        ELSE IF un.err # "nil" THEN fail("invalid URL encoding")
        ELSE [method |-> parts[1], path |-> un.path, version |-> parts[3],
              err |-> "nil"]

\* (the version test as a substring test)
validateRequestContains(method, version) ==
    IF ~\E i \in 0..(Len(version) - 4) : SubSeq(version, i + 1, i + 4) = sHTTP
    THEN "invalid HTTP version"
    ELSE IF method # sGET THEN "method not allowed"
    ELSE "nil"

validateRequest(method, version) ==
    IF ~HasPrefix(version, sHTTP) THEN "invalid HTTP version"
    ELSE IF method # sGET THEN "method not allowed"
    ELSE "nil"

----------------------------------------------------------------------------
(* path/filepath *)

Last(s) == s[Len(s)]
Front(s) == SubSeq(s, 1, Len(s) - 1)
sDotDot == <<46, 46>>

\* The element loop of filepath.Clean: empty and "." elements are dropped,
\* ".." removes the previous element when there is one to remove, is dropped
\* at the root of a rooted path and kept at the front of a relative one.
RECURSIVE CleanElems(_, _, _)
CleanElems(elems, out, rooted) ==
    IF elems = <<>> THEN out
    ELSE LET e == Head(elems)
             rest == Tail(elems)
         IN  IF e = <<>> \/ e = <<DOT>> THEN CleanElems(rest, out, rooted)
             ELSE IF e = sDotDot
                  THEN IF out # <<>> /\ Last(out) # sDotDot
                       THEN CleanElems(rest, Front(out), rooted)
                       ELSE IF rooted THEN CleanElems(rest, out, rooted)
                       ELSE CleanElems(rest, Append(out, e), rooted)
                  ELSE CleanElems(rest, Append(out, e), rooted)

\* filepath.Clean (Unix)
Clean(p) ==
    IF p = <<>> THEN <<DOT>>
    ELSE LET rooted == p[1] = SLASH
             out == CleanElems(Split(p, SLASH), <<>>, rooted)
         IN  IF rooted THEN <<SLASH>> \o JoinWith(out, SLASH)
             ELSE IF out = <<>> THEN <<DOT>>
             ELSE JoinWith(out, SLASH)

\* filepath.Join(a, b) with a non-empty: Clean(a + "/" + b)
filepathJoin(a, b) == Clean(a \o <<SLASH>> \o b)

\* filepath.Ext: the suffix of the last element from its last '.', or ""
filepathExt(p) ==
    LET base == Last(Split(p, SLASH))
        dots == {i \in 1..Len(base) : base[i] = DOT}
    IN  IF dots = {} THEN <<>>
        ELSE LET i == CHOOSE k \in dots : \A j \in dots : j <= k
             IN  SubSeq(base, i, Len(base))

----------------------------------------------------------------------------
(* The served root and the filesystem the daemon runs on.  The filesystem   *)
(* is the environment: it is fixed for a run.  Each entry says what the     *)
(* system calls the handler makes on it return.                             *)
(*   kind     "dir" | "file"                                                *)
(*   open     os.Open / os.ReadDir succeed (read permission)                *)
(*   fstat    File.Stat succeeds on the opened file                         *)
(*   size     byte size of a file                                           *)
(*   names    names of a directory's children, as os.ReadDir returns them   *)

\* dir (the -d flag): "/r"
dir == <<47, 114>>

nE == <<101>>
nG == <<103>>
n2 == <<50>>
nR == <<114>>
nEE == <<101, 101>>
nGG == <<103, 103>>

FileEntry(op, fst, sz) ==
    [kind |-> "file", open |-> op, fstat |-> fst, size |-> sz, names |-> <<>>]
DirEntry(op, ns) ==
    [kind |-> "dir", open |-> op, fstat |-> TRUE, size |-> 0, names |-> ns]

FS ==
    (<<47>> :> DirEntry(TRUE, <<nE, nR>>))                       \* /
    @@ (<<47, 101>> :> FileEntry(TRUE, TRUE, 1))                  \* /e    outside the served root
    @@ (dir :> DirEntry(TRUE, <<n2, nE, nEE, nG, nGG>>))          \* /r    the served root
    @@ (<<47, 114, 47, 50>> :> FileEntry(FALSE, TRUE, 1))         \* /r/2  not readable
    @@ (<<47, 114, 47, 101>> :> FileEntry(TRUE, TRUE, 2))         \* /r/e
    @@ (<<47, 114, 47, 101, 101>> :> FileEntry(TRUE, FALSE, 1))   \* /r/ee fstat fails
    @@ (<<47, 114, 47, 103>> :> DirEntry(TRUE, <<nE>>))           \* /r/g
    @@ (<<47, 114, 47, 103, 47, 101>> :> FileEntry(TRUE, TRUE, 1)) \* /r/g/e
    @@ (<<47, 114, 47, 103, 103>> :> DirEntry(FALSE, <<>>))       \* /r/gg not readable

\* os.Stat on a cleaned path: the entry; ENOTDIR ("error") when the path
\* runs through a regular file; ENOENT ("notexist") otherwise.
osStat(p) ==
    IF p \in DOMAIN FS THEN [err |-> "nil", kind |-> FS[p].kind]
    ELSE IF \E q \in DOMAIN FS :
                FS[q].kind = "file" /\ HasPrefix(p, q \o <<SLASH>>)
         THEN [err |-> "error", kind |-> "none"]
         ELSE [err |-> "notexist", kind |-> "none"]

----------------------------------------------------------------------------
(* What clients send *)

sPOST == <<80, 79, 83, 84>>

Req(method, sep1, rawPath, sep2, version, term) ==
    method \o sep1 \o rawPath \o sep2 \o version \o term

\* The clients that send data: one that closes after an unterminated line,
\* any that a terminated line came from, and, whatever was sent, one the
\* deadline cuts off (after that no write succeeds either).
MaxWrites == 2
Sent(data) ==
    {[data |-> data, ending |-> "eof", writable |-> k] : k \in 0..MaxWrites}
    \cup {[data |-> data, ending |-> "timeout", writable |-> 0]}

\* all byte strings over A of length at most n
Strs(A, n) == UNION {[1..k -> A] : k \in 0..n}

\* the bytes raw request paths are made of:  / . % 2 e g
PathBytes == {47, 46, 37, 50, 101, 103}

Methods == {sGET, sPOST, <<>>}
Separators == {<<32>>, <<32, 32>>, <<9>>}
Versions ==
    {sHTTP11, sHTTP10, sHTTP, <<72, 84, 84>>, <<70, 84, 80, 47, 49, 46, 49>>,
     <<88>> \o sHTTP11}
\* CRLF, LF, nothing, " CRLF", CRLF followed by a header line "H CRLF"
Terminators ==
    {sCRLF, <<10>>, <<>>, <<32>> \o sCRLF, sCRLF \o <<72, 32>> \o sCRLF}

\* raw paths that climb out of the served root:  /../e  and  /%2e%2e/e
DotDotPaths ==
    {<<47, 46, 46, 47, 101>>, <<47, 37, 50, 101, 37, 50, 101, 47, 101>>}

\* request lines of every shape around two paths, GET requests for every
\* raw path of up to MaxPathLen bytes and for the paths with .. segments,
\* and clients that send no full line
GenInputs ==
    Sent(<<>>) \cup Sent(sGET) \cup
    UNION {Sent(Req(m, s1, p, s2, v, t)) :
             m \in Methods, s1 \in Separators, p \in {<<47>>, <<47, 101>>},
             s2 \in Separators, v \in Versions, t \in Terminators}
    \cup
    UNION {Sent(Req(sGET, <<32>>, p, <<32>>, sHTTP11, sCRLF)) :
             p \in Strs(PathBytes, MaxPathLen) \cup DotDotPaths}

Get(p) == Req(sGET, <<32>>, p, <<32>>, sHTTP11, sCRLF)

Client(data, ending, k) == [data |-> data, ending |-> ending, writable |-> k]

\* the clients of the running daemon
SampleInputs ==
    {Client(Get(<<47, 101>>), "eof", 2),          \* /e   a file
     Client(Get(<<47>>), "eof", 0),               \* /    the served root; peer gone
     Client(Get(<<47, 103, 50>>), "eof", 2),      \* /g2  missing
     Client(Get(<<47, 50>>), "eof", 2),           \* /2   not readable
     Client(Get(<<47, 50, 47, 101>>), "eof", 1),  \* /2/e through a file
     Client(Req(sPOST, <<32>>, <<47>>, <<32>>, sHTTP11, sCRLF), "eof", 2),
     Client(sGET, "timeout", 0)}                  \* no line terminator

----------------------------------------------------------------------------
(* parseRequest, the path resolution and the rendering of a response are  *)
(* pure functions of the bytes received and of the filesystem.  Their      *)
(* values on the inputs of the model are tabulated once; the handler's     *)
(* steps look them up.                                                     *)

AllInputs == GenInputs \cup SampleInputs
Parsed == [in \in AllInputs |-> parseRequest(in)]
ParsedPaths == {Parsed[in].path : in \in AllInputs}

\* serveResource: fullPath := filepath.Join(dir, path); fi, err := os.Stat(fullPath)
resolve(path) ==
    LET fullPath == filepathJoin(dir, path)
    IN  [fullPath |-> fullPath, st |-> osStat(fullPath)]
Resolved == [p \in ParsedPaths |-> resolve(p)]

\* mime.TypeByExtension on the extensions of the entries of FS (none of
\* them is in the table of types): "" for an unknown extension
mimeTypeByExtension(ext) ==
    IF ext = <<46, 99, 115, 115>> THEN "text/css; charset=utf-8" ELSE ""

\* sendFile: the Content-Type of the file at path
contentType(path) ==
    LET mt == mimeTypeByExtension(filepathExt(path))
    IN  IF mt = "" THEN "application/octet-stream" ELSE mt
ContentTypes == [fp \in DOMAIN FS |-> contentType(fp)]

\* strings.TrimPrefix(s, ".")
TrimDot(s) == IF s # <<>> /\ s[1] = DOT THEN Tail(s) ELSE s

\* filepath.Join(a, b): empty leading elements are skipped
Join2(a, b) ==
    IF a # <<>> THEN filepathJoin(a, b)
    ELSE IF b # <<>> THEN Clean(b)
    ELSE <<>>

\* (the loop over the entries stops one short)
listingItemsButLast(path, names) ==
    [i \in 1..(Len(names) - 1) |->
       [href |-> Join2(TrimDot(path), names[i]), text |-> names[i]]]

\* generateDirectoryListing: one <li><a href=relativePath>name</a></li> per
\* entry os.ReadDir returns, relativePath the request path (less a leading
\* ".") joined with the entry's name
listingItems(path, names) ==
    [i \in 1..Len(names) |->
       [href |-> Join2(TrimDot(path), names[i]), text |-> names[i]]]
Listings ==
    [p \in ParsedPaths |->
       IF Resolved[p].st.kind = "dir"
       THEN listingItems(p, FS[Resolved[p].fullPath].names)
       ELSE <<>>]

----------------------------------------------------------------------------
(* Responses.  Every conn.Write call is recorded, in order, with what was   *)
(* handed to it and whether the bytes went out.  What a client sends is a   *)
(* record                                                                   *)
(*   data      the bytes it sends                                           *)
(*   ending    how the stream ends after them: "eof" (the peer closes) or   *)
(*             "timeout" (nothing more arrives before the deadline)         *)
(*   writable  how many Write calls succeed before the connection breaks    *)
(*             (the peer goes away or the deadline passes)                  *)

\* len(message) of the five messages sendError is called with
len(msg) ==
    CASE msg = "Bad Request" -> 11
      [] msg = "invalid HTTP version" -> 20
      [] msg = "method not allowed" -> 18
      [] msg = "Not Found" -> 9
      [] msg = "Internal Server Error" -> 21

\* conn.Write(b): the result is never looked at by the callers
connWrite(cr, rec) ==
    [cr EXCEPT !.writes =
        Append(@, [rec EXCEPT !.ok = Len(cr.writes) < cr.in.writable])]

\* one Write (or io.Copy) call:
\*   what     "error" | "header" | "body" | "listing"
\*   code,msg the status line, when the bytes start with one (code 0: none)
\*   headers  the names of the header lines, in order
\*   ctype    the value of Content-Type; clen the value of Content-Length
\*   n        the body bytes in the call (for io.Copy: the bytes that went out)
\*   items    the list items of a directory listing
\*   ok       the bytes went out
NoWrite ==
    [what |-> "none", code |-> 0, msg |-> "", headers |-> <<>>, ctype |-> "",
     clen |-> 0, n |-> 0, items |-> <<>>, ok |-> FALSE]

\* the header lines every Sprintf format of a response holds
TwoHeaders == <<"Content-Type", "Content-Length">>

\* generateDirectoryListing: builder.Len() -- the fixed opening and closing
\* markup and, per entry, the <li><a href="..">..</a></li> markup around
\* relativePath and file.Name()
ListHead == 87
ListFoot == 19
ItemMarkup == 24
RECURSIVE itemsLen(_)
itemsLen(items) ==
    IF items = <<>> THEN 0
    ELSE ItemMarkup + Len(Head(items).href) + Len(Head(items).text)
         + itemsLen(Tail(items))
builderLen(items) == ListHead + itemsLen(items) + ListFoot
ListingLens == [p \in ParsedPaths |-> builderLen(Listings[p])]

\* (the Content-Length of an error response left at zero)
sendErrorNoLength(cr, code, message) ==
    connWrite(cr, [NoWrite EXCEPT !.what = "error", !.code = code,
                                  !.msg = message, !.headers = TwoHeaders,
                                  !.ctype = "text/plain",
                                  !.clen = 0, !.n = len(message)])

\* sendError: status line, Content-Type: text/plain, Content-Length:
\* len(message), blank line, message -- in one Write
sendError(cr, code, message) ==
    connWrite(cr, [NoWrite EXCEPT !.what = "error", !.code = code,
                                  !.msg = message, !.headers = TwoHeaders,
                                  !.ctype = "text/plain",
                                  !.clen = len(message), !.n = len(message)])

\* (the return after the 500 of a failed os.Open left out)
sendFileNoReturn(cr, path) ==
    LET e == FS[path]
        cr1 == IF ~e.open
               THEN [sendError(cr, 500, "Internal Server Error")
                       EXCEPT !.serveErr = "open"]
               ELSE cr
        okHeader == Len(cr1.writes) < cr1.in.writable
        okBody == Len(cr1.writes) + 1 < cr1.in.writable
        header == [NoWrite EXCEPT !.what = "header", !.code = 200, !.msg = "OK",
                                  !.headers = TwoHeaders,
                                  !.ctype = ContentTypes[path], !.clen = e.size,
                                  !.ok = okHeader]
        body == [NoWrite EXCEPT !.what = "body",
                                !.n = IF okBody THEN e.size ELSE 0,
                                !.ok = okBody]
    IN  IF ~e.fstat
        THEN [sendError(cr1, 500, "Internal Server Error")
                EXCEPT !.serveErr = "fstat", !.stage = "Errored"]
        ELSE [cr1 EXCEPT !.writes = @ \o <<header, body>>, !.stage = "Served"]

\* (a failed os.Open answered like a missing file)
sendFileOpen404(cr, path) ==
    LET e == FS[path]
        okHeader == Len(cr.writes) < cr.in.writable
        okBody == Len(cr.writes) + 1 < cr.in.writable
        header == [NoWrite EXCEPT !.what = "header", !.code = 200, !.msg = "OK",
                                  !.headers = TwoHeaders,
                                  !.ctype = ContentTypes[path], !.clen = e.size,
                                  !.ok = okHeader]
        body == [NoWrite EXCEPT !.what = "body",
                                !.n = IF okBody THEN e.size ELSE 0,
                                !.ok = okBody]
    IN  IF ~e.open
        THEN [sendError(cr, 404, "Not Found")
                EXCEPT !.serveErr = "open", !.stage = "Errored"]
        ELSE IF ~e.fstat
        THEN [sendError(cr, 500, "Internal Server Error")
                EXCEPT !.serveErr = "fstat", !.stage = "Errored"]
        ELSE [cr EXCEPT !.writes = @ \o <<header, body>>, !.stage = "Served"]

\* sendFile: os.Open, File.Stat, then the header in one Write and the body
\* by io.Copy (recorded as one write of the bytes that went out; none when
\* the connection is broken).  The results of both are not looked at.
sendFile(cr, path) ==
    LET e == FS[path]
        okHeader == Len(cr.writes) < cr.in.writable
        okBody == Len(cr.writes) + 1 < cr.in.writable
        header == [NoWrite EXCEPT !.what = "header", !.code = 200, !.msg = "OK",
                                  !.headers = TwoHeaders,
                                  !.ctype = ContentTypes[path], !.clen = e.size,
                                  !.ok = okHeader]
        body == [NoWrite EXCEPT !.what = "body",
                                !.n = IF okBody THEN e.size ELSE 0,
                                !.ok = okBody]
    IN  IF ~e.open
        THEN [sendError(cr, 500, "Internal Server Error")
                EXCEPT !.serveErr = "open", !.stage = "Errored"]
        ELSE IF ~e.fstat
        THEN [sendError(cr, 500, "Internal Server Error")
                EXCEPT !.serveErr = "fstat", !.stage = "Errored"]
        ELSE [cr EXCEPT !.writes = @ \o <<header, body>>, !.stage = "Served"]

\* generateDirectoryListing: os.ReadDir, then header and document in one
\* Write
generateDirectoryListing(cr, path, fullPath) ==
    IF ~FS[fullPath].open
    THEN [sendError(cr, 500, "Internal Server Error")
            EXCEPT !.serveErr = "readdir", !.stage = "Errored"]
    ELSE [connWrite(cr,
                    [NoWrite EXCEPT !.what = "listing", !.code = 200,
                                    !.msg = "OK", !.headers = TwoHeaders,
                                    !.ctype = "text/html",
                                    !.clen = ListingLens[path],
                                    !.n = ListingLens[path],
                                    !.items = Listings[path]])
            EXCEPT !.stage = "Served"]

----------------------------------------------------------------------------
(* State *)

\* (a spawn loop that runs once too often)
WorkerIdsOffByOne(k) == 0..k

\* for i := range workers { go func(workerID int) {...}(i) }
WorkerIds(k) == 1..k
Workers == WorkerIds(workers)
Conns == 1..MaxConns

NoInput == [data |-> <<>>, ending |-> "none", writable |-> 0]

\* a connection nobody has accepted yet
NoConn ==
    [stage |-> "none", deadlines |-> 0, recv |-> 0, returned |-> FALSE,
     closes |-> 0, reads |-> 0, in |-> NoInput,
     method |-> <<>>, path |-> <<>>, version |-> <<>>,
     perr |-> "none", verr |-> "none",
     fullPath |-> <<>>, stats |-> 0, staterr |-> "none", kind |-> "none",
     serveErr |-> "none", writes |-> <<>>]

Init ==
    /\ workers \in 0..MaxWorkers
    /\ proc = "running"
    /\ apc = "accept"
    /\ aconn = 0
    /\ aerr = FALSE
    /\ naccepted = 0
    /\ wpc = [w \in Workers |-> "recv"]
    /\ wconn = [w \in Workers |-> 0]
    /\ conn = [c \in Conns |-> NoConn]

----------------------------------------------------------------------------
(* The accept loop (main, lines 57-66) *)

\* conn, err := listener.Accept(): a new connection, or (nil, err)
Accept ==
    /\ proc = "running"
    /\ apc = "accept"
    /\ \/ /\ naccepted < MaxConns
          /\ naccepted' = naccepted + 1
          /\ aconn' = naccepted + 1
          /\ aerr' = FALSE
          /\ conn' = [conn EXCEPT ![naccepted + 1].stage = "Accepted"]
       \/ /\ aconn' = 0
          /\ aerr' = TRUE
          /\ UNCHANGED <<naccepted, conn>>
    /\ apc' = "deadline"
    /\ UNCHANGED <<workers, proc, wpc, wconn>>

\* conn.SetDeadline(now + 5s), called before err is looked at: on a nil
\* conn the method call is a nil dereference and the process panics
SetDeadline ==
    /\ proc = "running"
    /\ apc = "deadline"
    /\ IF aconn = 0
       THEN /\ proc' = "panic"
            /\ UNCHANGED <<apc, conn>>
       ELSE /\ conn' = [conn EXCEPT ![aconn].deadlines = @ + 1]
            /\ apc' = "check"
            /\ UNCHANGED proc
    /\ UNCHANGED <<workers, aconn, aerr, naccepted, wpc, wconn>>

\* if err != nil { log.Fatalf(...) }
CheckErr ==
    /\ proc = "running"
    /\ apc = "check"
    /\ IF aerr
       THEN proc' = "fatal" /\ UNCHANGED apc
       ELSE apc' = "send" /\ UNCHANGED proc
    /\ UNCHANGED <<workers, aconn, aerr, naccepted, wpc, wconn, conn>>

\* (a buffered channel: the send completes with no worker receiving)
HandoffBuffered(w) ==
    /\ proc = "running"
    /\ apc = "send"
    /\ apc' = "accept"
    /\ aconn' = 0
    /\ UNCHANGED <<workers, proc, aerr, naccepted, wpc, wconn, conn>>

\* connChan <- conn meets a worker's receive (for conn := range connChan):
\* the channel is unbuffered, so the send completes only together with the
\* receive of a worker that is blocked on the channel
Handoff(w) ==
    /\ proc = "running"
    /\ apc = "send"
    /\ wpc[w] = "recv"
    /\ wpc' = [wpc EXCEPT ![w] = "handle"]
    /\ wconn' = [wconn EXCEPT ![w] = aconn]
    /\ conn' = [conn EXCEPT ![aconn].recv = @ + 1]
    /\ apc' = "accept"
    /\ aconn' = 0
    /\ UNCHANGED <<workers, proc, aerr, naccepted>>

----------------------------------------------------------------------------
(* handleConnection, one step per stage *)

Handling(w, stage) ==
    /\ proc = "running"
    /\ wpc[w] = "handle"
    /\ conn[wconn[w]].stage = stage

\* (the handler arming a fresh deadline before its read)
ParseStepRearm(w, in) ==
    /\ Handling(w, "Accepted")
    /\ \E r \in {Parsed[in]} :
         \E cr \in {[conn[wconn[w]] EXCEPT !.in = in, !.reads = @ + 1, !.perr = r.err,
                       !.deadlines = @ + 1,
                       !.method = r.method, !.path = r.path, !.version = r.version]} :
           conn' = [conn EXCEPT ![wconn[w]] =
                      IF r.err # "nil"
                      THEN [sendError(cr, 400, "Bad Request") EXCEPT !.stage = "Errored"]
                      ELSE [cr EXCEPT !.stage = "Parsed"]]
    /\ UNCHANGED <<workers, proc, apc, aconn, aerr, naccepted, wpc, wconn>>

\* (the read is tried again until a request line parses)
ParseStepRetry(w, in) ==
    /\ Handling(w, "Accepted")
    /\ \E r \in {Parsed[in]} :
         IF r.err # "nil"
         THEN UNCHANGED conn
         ELSE conn' = [conn EXCEPT ![wconn[w]] =
                         [@ EXCEPT !.in = in, !.reads = @ + 1, !.perr = "nil",
                                   !.method = r.method, !.path = r.path,
                                   !.version = r.version, !.stage = "Parsed"]]
    /\ UNCHANGED <<workers, proc, apc, aconn, aerr, naccepted, wpc, wconn>>

\* parseRequest(conn); on error sendError(conn, 400, "Bad Request").
\* (parseRequest's result is bound once, as the code's variables are.)
ParseStep(w, in) ==
    /\ Handling(w, "Accepted")
    /\ \E r \in {Parsed[in]} :
         \E cr \in {[conn[wconn[w]] EXCEPT
                       !.in = in, !.reads = @ + 1, !.perr = r.err,
                       !.method = r.method, !.path = r.path,
                       !.version = r.version]} :
           conn' = [conn EXCEPT ![wconn[w]] =
                      IF r.err # "nil"
                      THEN [sendError(cr, 400, "Bad Request")
                              EXCEPT !.stage = "Errored"]
                      ELSE [cr EXCEPT !.stage = "Parsed"]]
    /\ UNCHANGED <<workers, proc, apc, aconn, aerr, naccepted, wpc, wconn>>

\* (the return after the 400 of a failed validation left out)
ValidateStepFallsThrough(w) ==
    /\ Handling(w, "Parsed")
    /\ \E e \in {validateRequest(conn[wconn[w]].method, conn[wconn[w]].version)} :
         \E cr \in {[conn[wconn[w]] EXCEPT !.verr = e]} :
           conn' = [conn EXCEPT ![wconn[w]] =
                      IF e # "nil"
                      THEN [sendError(cr, 400, e) EXCEPT !.stage = "Validated"]
                      ELSE [cr EXCEPT !.stage = "Validated"]]
    /\ UNCHANGED <<workers, proc, apc, aconn, aerr, naccepted, wpc, wconn>>

\* validateRequest(method, version); on error sendError(conn, 400, err.Error())
ValidateStep(w) ==
    /\ Handling(w, "Parsed")
    /\ \E e \in {validateRequest(conn[wconn[w]].method, conn[wconn[w]].version)} :
         \E cr \in {[conn[wconn[w]] EXCEPT !.verr = e]} :
           conn' = [conn EXCEPT ![wconn[w]] =
                      IF e # "nil"
                      THEN [sendError(cr, 400, e) EXCEPT !.stage = "Errored"]
                      ELSE [cr EXCEPT !.stage = "Validated"]]
    /\ UNCHANGED <<workers, proc, apc, aconn, aerr, naccepted, wpc, wconn>>

\* (the request path kept in a variable shared by all handlers: the path
\* resolved is the one of the connection accepted last)
ResolveStepSharedPath(w) ==
    /\ Handling(w, "Validated")
    /\ \E fullPath \in {Resolved[conn[naccepted].path].fullPath} :
         \E st \in {Resolved[conn[naccepted].path].st} :
           \E cr \in {[conn[wconn[w]] EXCEPT
                         !.fullPath = fullPath, !.stats = @ + 1,
                         !.staterr = st.err, !.kind = st.kind]} :
             conn' = [conn EXCEPT ![wconn[w]] =
                        IF st.err = "notexist"
                        THEN [sendError(cr, 404, "Not Found")
                                EXCEPT !.stage = "Errored"]
                        ELSE IF st.err # "nil"
                        THEN [sendError(cr, 500, "Internal Server Error")
                                EXCEPT !.stage = "Errored"]
                        ELSE [cr EXCEPT !.stage = "Resolved"]]
    /\ UNCHANGED <<workers, proc, apc, aconn, aerr, naccepted, wpc, wconn>>

\* (every os.Stat error answered 404, os.IsNotExist not consulted)
ResolveStepNotFoundOnly(w) ==
    /\ Handling(w, "Validated")
    /\ \E fullPath \in {Resolved[conn[wconn[w]].path].fullPath} :
         \E st \in {Resolved[conn[wconn[w]].path].st} :
           \E cr \in {[conn[wconn[w]] EXCEPT
                         !.fullPath = fullPath, !.stats = @ + 1,
                         !.staterr = st.err, !.kind = st.kind]} :
             conn' = [conn EXCEPT ![wconn[w]] =
                        IF st.err # "nil"
                        THEN [sendError(cr, 404, "Not Found")
                                EXCEPT !.stage = "Errored"]
                        ELSE [cr EXCEPT !.stage = "Resolved"]]
    /\ UNCHANGED <<workers, proc, apc, aconn, aerr, naccepted, wpc, wconn>>

\* serveResource up to the IsDir test: filepath.Join, os.Stat, 404 / 500
ResolveStep(w) ==
    /\ Handling(w, "Validated")
    /\ \E fullPath \in {Resolved[conn[wconn[w]].path].fullPath} :
         \E st \in {Resolved[conn[wconn[w]].path].st} :
           \E cr \in {[conn[wconn[w]] EXCEPT
                         !.fullPath = fullPath, !.stats = @ + 1,
                         !.staterr = st.err, !.kind = st.kind]} :
             conn' = [conn EXCEPT ![wconn[w]] =
                        IF st.err = "notexist"
                        THEN [sendError(cr, 404, "Not Found")
                                EXCEPT !.stage = "Errored"]
                        ELSE IF st.err # "nil"
                        THEN [sendError(cr, 500, "Internal Server Error")
                                EXCEPT !.stage = "Errored"]
                        ELSE [cr EXCEPT !.stage = "Resolved"]]
    /\ UNCHANGED <<workers, proc, apc, aconn, aerr, naccepted, wpc, wconn>>

\* serveResource from the IsDir test: generateDirectoryListing or sendFile
ServeStep(w) ==
    /\ Handling(w, "Resolved")
    /\ \E cr \in {conn[wconn[w]]} :
         conn' = [conn EXCEPT ![wconn[w]] =
                    IF cr.kind = "dir"
                    THEN generateDirectoryListing(cr, cr.path, cr.fullPath)
                    ELSE sendFile(cr, cr.fullPath)]
    /\ UNCHANGED <<workers, proc, apc, aconn, aerr, naccepted, wpc, wconn>>

\* (a worker that ends after a request that failed)
CloseStepWorkerEnds(w) ==
    /\ proc = "running"
    /\ wpc[w] = "handle"
    /\ conn[wconn[w]].stage \in {"Served", "Errored"}
    /\ conn' = [conn EXCEPT ![wconn[w]] =
                  [@ EXCEPT !.closes = @ + 1, !.stage = "Closed",
                            !.returned = TRUE]]
    /\ wpc' = [wpc EXCEPT ![w] =
                 IF conn[wconn[w]].stage = "Errored" THEN "ended" ELSE "recv"]
    /\ wconn' = [wconn EXCEPT ![w] = 0]
    /\ UNCHANGED <<workers, proc, apc, aconn, aerr, naccepted>>

\* (Close called at the end of the success path only, not deferred)
CloseStepNotDeferred(w) ==
    /\ proc = "running"
    /\ wpc[w] = "handle"
    /\ conn[wconn[w]].stage \in {"Served", "Errored"}
    /\ conn' = [conn EXCEPT ![wconn[w]] =
                  IF @.stage = "Served"
                  THEN [@ EXCEPT !.closes = @ + 1, !.stage = "Closed",
                                 !.returned = TRUE]
                  ELSE [@ EXCEPT !.returned = TRUE]]
    /\ wpc' = [wpc EXCEPT ![w] = "recv"]
    /\ wconn' = [wconn EXCEPT ![w] = 0]
    /\ UNCHANGED <<workers, proc, apc, aconn, aerr, naccepted>>

\* defer conn.Close() runs when handleConnection returns, on every path;
\* the worker then receives from connChan again
CloseStep(w) ==
    /\ proc = "running"
    /\ wpc[w] = "handle"
    /\ conn[wconn[w]].stage \in {"Served", "Errored"}
    /\ conn' = [conn EXCEPT ![wconn[w]] =
                  [@ EXCEPT !.closes = @ + 1, !.stage = "Closed",
                            !.returned = TRUE]]
    /\ wpc' = [wpc EXCEPT ![w] = "recv"]
    /\ wconn' = [wconn EXCEPT ![w] = 0]
    /\ UNCHANGED <<workers, proc, apc, aconn, aerr, naccepted>>

----------------------------------------------------------------------------
(* The daemon: acceptor and workers *)

Next ==
    \/ Accept
    \/ SetDeadline
    \/ CheckErr
    \/ \E w \in Workers : Handoff(w)
    \/ \E w \in Workers : \E in \in SampleInputs : ParseStep(w, in)
    \/ \E w \in Workers : ValidateStep(w)
    \/ \E w \in Workers : ResolveStep(w)
    \/ \E w \in Workers : ServeStep(w)
    \/ \E w \in Workers : CloseStep(w)

Spec == Init /\ [][Next]_vars

\* The daemon under fair scheduling.  A goroutine that can run does run:
\* the acceptor goes on from a returned Accept to the send, a send and a
\* receive that are both ready meet, and a worker inside handleConnection
\* goes on to its return (every call it makes returns).  Accept itself
\* returns when a client connects or the listener fails, which nothing in
\* the program brings about: no fairness for it.
AcceptorStep == SetDeadline \/ CheckErr
WorkerStep(w) ==
    /\ w \in Workers
    /\ \/ \E in \in SampleInputs : ParseStep(w, in)
       \/ ValidateStep(w)
       \/ ResolveStep(w)
       \/ ServeStep(w)
       \/ CloseStep(w)
FairSpec ==
    /\ Init /\ [][Next]_vars
    /\ WF_vars(AcceptorStep)
    /\ WF_vars(\E w \in Workers : Handoff(w))
    /\ \A w \in 1..MaxWorkers : WF_vars(WorkerStep(w))

----------------------------------------------------------------------------
(* One handleConnection invocation: the daemon with one worker, after the  *)
(* acceptor has accepted one connection, armed its deadline and handed it  *)
(* to the worker, and while no other client connects.  The handler's read  *)
(* returns once the client has sent its bytes and closed, or the deadline   *)
(* has cut the read off.  Every call the handler makes after that returns,  *)
(* so a handler whose read has returned and that can take a step takes it   *)
(* (weak fairness of its steps).                                            *)

HandlerInit ==
    /\ workers = 1
    /\ proc = "running"
    /\ apc = "accept"
    /\ aconn = 0
    /\ aerr = FALSE
    /\ naccepted = 1
    /\ wpc = [w \in WorkerIds(1) |-> "handle"]
    /\ wconn = [w \in WorkerIds(1) |-> 1]
    /\ conn = [c \in Conns |->
                 IF c = 1
                 THEN [NoConn EXCEPT !.stage = "Accepted", !.deadlines = 1,
                                     !.recv = 1]
                 ELSE NoConn]

\* the client's bytes (or the end of the stream, or the deadline) arrive
ClientSends(in) ==
    /\ conn[1].stage = "Accepted"
    /\ conn[1].in = NoInput
    /\ conn' = [conn EXCEPT ![1].in = in]
    /\ UNCHANGED <<workers, proc, apc, aconn, aerr, naccepted, wpc, wconn>>

\* the handler's own steps, from the return of its read onwards
HandlerSteps ==
    \/ conn[1].in # NoInput /\ ParseStep(1, conn[1].in)
    \/ ValidateStep(1)
    \/ ResolveStep(1)
    \/ ServeStep(1)
    \/ CloseStep(1)

HandlerNext ==
    \/ conn[1].in = NoInput /\ \E in \in GenInputs : ClientSends(in)
    \/ HandlerSteps

HandlerSpec == HandlerInit /\ [][HandlerNext]_vars /\ WF_vars(HandlerSteps)

----------------------------------------------------------------------------
(* Claims about the daemon (specification Spec) *)

\* connections accepted and not yet closed
Open == {c \in Conns : conn[c].stage \notin {"none", "Closed"}}
\* connections whose handleConnection invocation is in progress
InHandler == {c \in Conns : conn[c].recv >= 1 /\ ~conn[c].returned}
Holders(c) == {w \in DOMAIN wconn : wconn[w] = c}

\* C1: every accepted connection is received by at most one worker, at most
\* once, is handled by that worker only, is never closed twice, is closed
\* only by a handler that received it, and has been closed exactly once when
\* its handler has returned -- whichever stage failed or succeeded.
C1_OneWorkerOneClose ==
    \A c \in Conns :
      /\ conn[c].recv <= 1
      /\ Cardinality(Holders(c)) <= 1
      /\ conn[c].closes <= 1
      /\ conn[c].closes <= conn[c].recv
      /\ Holders(c) # {} => conn[c].recv = 1 /\ conn[c].closes = 0
      /\ conn[c].returned =>
           /\ conn[c].recv = 1
           /\ conn[c].closes = 1
           /\ conn[c].stage = "Closed"
           /\ Holders(c) = {}
      /\ conn[c].stage = "none" => conn[c].recv = 0

\* two workers; one connection failed in the parse stage, another was
\* served; both handlers returned and both connections are closed
C1_Witness ==
    /\ workers = 2
    /\ \E c1, c2 \in Conns :
         /\ conn[c1].returned /\ conn[c1].perr \notin {"none", "nil"}
         /\ conn[c1].closes = 1
         /\ conn[c2].returned /\ conn[c2].serveErr = "none"
         /\ conn[c2].kind = "file" /\ conn[c2].closes = 1

\* C2: with workers = k the number of connections whose handleConnection
\* invocation is in progress is at most k.
C2_AtMostKHandlers == Cardinality(InHandler) <= workers

\* both of two workers are inside handleConnection
C2_Witness ==
    /\ workers = 2
    /\ Cardinality(InHandler) = 2
    /\ \A w \in Workers : wpc[w] = "handle"

\* C3 as stated: the number of connections that are accepted and not yet
\* closed never exceeds workers (for a pool of at least one worker).
C3_Original == workers >= 1 => Cardinality(Open) <= workers

\* C3 amended: while all workers are busy the acceptor accepts one more
\* connection and then blocks in the hand-off; the connections accepted and
\* not yet closed never exceed workers + 1, and when they are workers + 1
\* one of them is the connection the acceptor holds, not yet received.
C3_AtMostKPlusOne ==
    /\ Cardinality(Open) <= workers + 1
    /\ Cardinality(Open) = workers + 1 =>
         /\ aconn \in Open
         /\ conn[aconn].recv = 0
         /\ apc \in {"deadline", "check", "send"}
    /\ \A c \in Open : conn[c].recv = 0 => c = aconn

\* the only worker is busy and the acceptor is blocked in the hand-off with
\* a second accepted connection
C3_Witness ==
    /\ workers = 1
    /\ apc = "send"
    /\ Cardinality(Open) = 2
    /\ \A w \in Workers : wpc[w] = "handle"

----------------------------------------------------------------------------
(* Claims about one handleConnection invocation (specification HandlerSpec) *)

\* the connection of the invocation
h == conn[1]
HandlerStages ==
    {"Accepted", "Parsed", "Validated", "Resolved", "Served", "Errored"}
\* the status codes of the status lines written, in order
StatusCodes(cr) ==
    LET idx == {i \in 1..Len(cr.writes) : cr.writes[i].code # 0}
        f[i \in 0..Len(cr.writes)] ==
          IF i = 0 THEN <<>>
          ELSE IF i \in idx THEN Append(f[i - 1], cr.writes[i].code)
          ELSE f[i - 1]
    IN  f[Len(cr.writes)]
\* the request line as read: up to and including the first LF
FirstLine(data) ==
    IF \E i \in 1..Len(data) : data[i] = 10
    THEN SubSeq(data, 1, CHOOSE i \in 1..Len(data) :
                           data[i] = 10 /\ \A j \in 1..(i - 1) : data[j] # 10)
    ELSE data
Terminated(data) == \E i \in 1..Len(data) : data[i] = 10
StartsWithHTTP(v) ==
    Len(v) >= 4 /\ v[1] = 72 /\ v[2] = 84 /\ v[3] = 84 /\ v[4] = 80

\* C4: from each of Accepted, Parsed, Validated, Resolved, Served and
\* Errored the handler eventually reaches Closed, has returned and has
\* closed the connection once, given that every call it makes returns: its
\* read has returned (with bytes, the end of the stream or the deadline's
\* error) and its steps are weakly fair.
C4_EventuallyClosed ==
    (h.stage \in HandlerStages /\ h.in # NoInput) ~>
      (h.stage = "Closed" /\ h.returned /\ h.closes = 1)

\* closed after an error raised in the serve stage (from Resolved)
C4_Witness ==
    /\ h.stage = "Closed"
    /\ h.serveErr # "none"
    /\ h.closes = 1

\* C5 as stated: parse failure 400, validation failure 400, missing 404,
\* other query error 500, and every resolved file or directory 200.
C5_Original ==
    h.stage = "Closed" =>
      StatusCodes(h) =
        <<IF h.perr # "nil" THEN 400
          ELSE IF h.verr # "nil" THEN 400
          ELSE IF h.staterr = "notexist" THEN 404
          ELSE IF h.staterr # "nil" THEN 500
          ELSE 200>>

\* C5 amended: as C5, but a resolved file or directory gives 200 only when
\* it can be opened (and the opened file's metadata read, the directory
\* listed); when that fails the status is 500.
C5_FirstFailingStage ==
    h.stage \in {"Served", "Errored", "Closed"} =>
      StatusCodes(h) =
        <<IF h.perr # "nil" THEN 400
          ELSE IF h.verr # "nil" THEN 400
          ELSE IF h.staterr = "notexist" THEN 404
          ELSE IF h.staterr # "nil" THEN 500
          ELSE IF h.serveErr # "none" THEN 500
          ELSE 200>>

\* a resolved regular file that cannot be opened was answered 500
C5_Witness ==
    /\ h.stage = "Closed"
    /\ h.staterr = "nil" /\ h.kind = "file" /\ h.serveErr = "open"
    /\ StatusCodes(h) = <<500>>

\* an I/O failure of the serve stage: open, metadata, directory read, or a
\* write of the header or body that did not go out
ServeWriteFailed(cr) ==
    \E i \in 1..Len(cr.writes) :
      cr.writes[i].what \in {"header", "body", "listing"} /\ ~cr.writes[i].ok

\* C6 as stated: any I/O failure while serving a resolved resource results
\* in a 500 response being written.
C6_Original ==
    (h.stage = "Closed" /\ h.staterr = "nil"
       /\ (h.serveErr # "none" \/ ServeWriteFailed(h)))
      => \E i \in 1..Len(h.writes) : h.writes[i].code = 500

\* C6 amended: a failure to open the file, to read its metadata or to read
\* the directory results in a 500 response being written (once, nothing
\* else); a failure to write the header or the body is ignored: a 200
\* status line is all that is written, and no 500 follows.
C6_ServeFailures ==
    h.stage \in {"Served", "Errored", "Closed"} /\ h.staterr = "nil" =>
      IF h.serveErr # "none"
      THEN /\ Len(h.writes) = 1
           /\ h.writes[1].what = "error"
           /\ h.writes[1].code = 500
           /\ h.writes[1].msg = "Internal Server Error"
      ELSE /\ StatusCodes(h) = <<200>>
           /\ h.writes[1].what \in {"header", "listing"}

\* the metadata of an opened file could not be read, and 500 was written
C6_Witness ==
    /\ h.stage = "Closed"
    /\ h.serveErr = "fstat"
    /\ h.writes[1].code = 500 /\ h.writes[1].ok

\* C7: validateRequest succeeds iff method = "GET" and version starts with
\* "HTTP"; a request whose method is not GET or whose version does not
\* start with HTTP is answered 400, without the filesystem being queried.
C7_Validate ==
    /\ h.verr # "none" =>
         (h.verr = "nil" <=> (h.method = <<71, 69, 84>> /\ StartsWithHTTP(h.version)))
    /\ (h.returned /\ (h.method # <<71, 69, 84>> \/ ~StartsWithHTTP(h.version))) =>
         /\ StatusCodes(h) = <<400>>
         /\ h.stats = 0

\* a GET with version XHTTP/1.1 parsed and was answered 400
C7_Witness ==
    /\ h.returned /\ h.perr = "nil" /\ h.method = <<71, 69, 84>>
    /\ h.version[1] = 88 /\ h.verr = "invalid HTTP version"
    /\ StatusCodes(h) = <<400>>

\* white space as strings.Fields knows it; the number of white-space
\* separated tokens of s
IsSpace(c) == c \in {9, 10, 11, 12, 13, 32}
NumTokens(s) ==
    Cardinality({i \in 1..Len(s) :
                   ~IsSpace(s[i]) /\ (i = 1 \/ IsSpace(s[i - 1]))})
NumSpaces(s) == Cardinality({i \in 1..Len(s) : s[i] = 32})

\* C8 as stated: parsing fails on the token count exactly when the number
\* of white-space separated tokens of the request line differs from three.
C8_Original ==
    (h.reads = 1 /\ Terminated(h.in.data)) =>
      (h.perr = "invalid Request line" <=> NumTokens(FirstLine(h.in.data)) # 3)

\* C8, what the code does instead: the line is cut at every single space
\* character (0x20) and parsing fails with "invalid Request line" exactly
\* when that gives other than three pieces, that is when the line does not
\* hold exactly two spaces; tabs do not separate and a run of spaces gives
\* empty pieces.
C8_SplitAtSpaces ==
    (h.reads = 1 /\ Terminated(h.in.data)) =>
      (h.perr = "invalid Request line" <=> NumSpaces(FirstLine(h.in.data)) # 2)

\* "GET", two spaces, "HTTP/1.1": a line of two tokens passed parsing with
\* the empty path and was answered 200 with the listing of the served root
C8_Witness ==
    /\ h.returned /\ h.reads = 1 /\ Terminated(h.in.data)
    /\ NumTokens(FirstLine(h.in.data)) = 2
    /\ h.perr = "nil" /\ h.method = <<71, 69, 84>> /\ h.path = <<>>
    /\ h.fullPath = dir
    /\ StatusCodes(h) = <<200>>

\* percent-decoding, stated on its own: left to right, %XY is the byte with
\* hexadecimal digits X and Y
HexDigits == <<48, 49, 50, 51, 52, 53, 54, 55, 56, 57, 97, 98, 99, 100, 101, 102>>
UpperHex == <<48, 49, 50, 51, 52, 53, 54, 55, 56, 57, 65, 66, 67, 68, 69, 70>>
IsHexDigit(c) == \E k \in 1..16 : HexDigits[k] = c \/ UpperHex[k] = c
HexValue(c) == (CHOOSE k \in 1..16 : HexDigits[k] = c \/ UpperHex[k] = c) - 1
WellEscaped(s) ==
    \A i \in 1..Len(s) :
      s[i] = 37 => i + 2 <= Len(s) /\ IsHexDigit(s[i + 1]) /\ IsHexDigit(s[i + 2])
RECURSIVE Decoded(_)
Decoded(s) ==
    IF s = <<>> THEN <<>>
    ELSE IF Head(s) = 37
         THEN <<16 * HexValue(s[2]) + HexValue(s[3])>> \o Decoded(SubSeq(s, 4, Len(s)))
         ELSE <<Head(s)>> \o Decoded(Tail(s))

\* the version-and-terminator suffixes of a valid request line
ValidTails ==
    {v \o t : v \in {<<72, 84, 84, 80, 47, 49, 46, 48>>,
                     <<72, 84, 84, 80, 47, 49, 46, 49>>},
              t \in {<<13, 10>>, <<10>>}}
\* line is "GET <raw> HTTP/1.x<terminator>" with tail its version and
\* terminator and no space or line feed in raw
ValidLine(line, tail) ==
    /\ Len(line) >= 5 + Len(tail)
    /\ SubSeq(line, 1, 4) = <<71, 69, 84, 32>>
    /\ SubSeq(line, Len(line) - Len(tail), Len(line)) = <<32>> \o tail
    /\ \A i \in 5..(Len(line) - Len(tail) - 1) : line[i] \notin {32, 10}
RawPath(line, tail) == SubSeq(line, 5, Len(line) - Len(tail) - 1)

\* C9: for a request line GET <raw> HTTP/1.x<terminator>, parseRequest
\* returns method "GET", the percent-decoded raw path and the version with
\* its terminator bytes when every '%' of raw starts a valid escape, and
\* fails otherwise.
C9_ParseValid ==
    h.reads = 1 =>
      \A tail \in ValidTails :
        LET line == FirstLine(h.in.data)
        IN  ValidLine(line, tail) =>
              IF WellEscaped(RawPath(line, tail))
              THEN /\ h.perr = "nil"
                   /\ h.method = <<71, 69, 84>>
                   /\ h.path = Decoded(RawPath(line, tail))
                   /\ h.version = tail
              ELSE /\ h.perr = "invalid URL encoding"
                   /\ h.stage \in {"Errored", "Closed"}

\* GET %2e HTTP/1.1 CRLF parsed to the path "."
C9_Witness ==
    /\ h.reads = 1 /\ h.perr = "nil"
    /\ ValidLine(FirstLine(h.in.data), <<72, 84, 84, 80, 47, 49, 46, 49, 13, 10>>)
    /\ RawPath(FirstLine(h.in.data), <<72, 84, 84, 80, 47, 49, 46, 49, 13, 10>>)
         = <<37, 50, 101>>
    /\ h.path = <<46>>
    /\ h.version = <<72, 84, 84, 80, 47, 49, 46, 49, 13, 10>>

\* C10: when the request line read ends without a line terminator (the peer
\* closed, the stream ended, or the deadline expired), parseRequest fails,
\* the read is not tried again, one 400 response is attempted, nothing else
\* is done with the request, and the connection is closed.
C10_Unterminated ==
    (h.stage = "Accepted" /\ h.in # NoInput /\ ~Terminated(h.in.data)) ~>
      (/\ h.stage = "Closed" /\ h.closes = 1 /\ h.returned
       /\ h.perr = "invalid request format"
       /\ h.reads = 1
       /\ Len(h.writes) = 1
       /\ h.writes[1].what = "error" /\ h.writes[1].code = 400
       /\ h.writes[1].msg = "Bad Request"
       /\ h.stats = 0)

\* the read timed out on "GET" with no terminator; the 400 could not be
\* written; the connection is closed
C10_Witness ==
    /\ h.stage = "Closed" /\ h.closes = 1
    /\ h.in.ending = "timeout" /\ ~Terminated(h.in.data) /\ h.in.data # <<>>
    /\ h.perr = "invalid request format"
    /\ h.reads = 1
    /\ Len(h.writes) = 1 /\ ~h.writes[1].ok

\* the body bytes that went out for the response whose status line is in
\* write i: with the status line for an error or a listing (one Write), in
\* the io.Copy that follows the header for a file
BodyOut(cr, i) ==
    IF cr.writes[i].what = "header" THEN cr.writes[i + 1].n
    ELSE IF cr.writes[i].ok THEN cr.writes[i].n ELSE 0
\* the length of the body a response is built with: the message, the
\* rendered document, the size of the file
MessageLength(m) ==
    CASE m = "Bad Request" -> 11
      [] m = "invalid HTTP version" -> 20
      [] m = "method not allowed" -> 18
      [] m = "Not Found" -> 9
      [] m = "Internal Server Error" -> 21
DocumentLength(items) ==
    LET f[k \in 0..Len(items)] ==
          IF k = 0 THEN 106
          ELSE f[k - 1] + 24 + Len(items[k].href) + Len(items[k].text)
    IN  f[Len(items)]
BuiltLength(cr, i) ==
    CASE cr.writes[i].what = "error" -> MessageLength(cr.writes[i].msg)
      [] cr.writes[i].what = "listing" -> DocumentLength(cr.writes[i].items)
      [] cr.writes[i].what = "header" -> FS[cr.fullPath].size
Responses(cr) == {i \in 1..Len(cr.writes) : cr.writes[i].code # 0}

\* C11 as stated: every response that went out has the two headers, and its
\* Content-Length equals the number of body bytes written after the blank
\* line.
C11_Original ==
    \A i \in Responses(h) :
      h.writes[i].ok =>
        /\ h.writes[i].headers = <<"Content-Type", "Content-Length">>
        /\ h.writes[i].clen = BodyOut(h, i)

\* C11 amended: every response has exactly the headers Content-Type and
\* Content-Length, and Content-Length is the length of the body the response
\* is built with (message, rendered document, file size).  The body of an
\* error or listing response goes out with its header in one write; the
\* body of a file response is copied after the header, and has that many
\* bytes when the copy succeeds and fewer when it does not.
C11_HeadersAndLength ==
    \A i \in Responses(h) :
      /\ h.writes[i].headers = <<"Content-Type", "Content-Length">>
      /\ h.writes[i].clen = BuiltLength(h, i)
      /\ h.writes[i].what \in {"error", "listing"} =>
           (h.writes[i].ok => BodyOut(h, i) = h.writes[i].clen)
      /\ h.writes[i].what = "header" =>
           /\ Len(h.writes) = i + 1 /\ h.writes[i + 1].what = "body"
           /\ BodyOut(h, i) <= h.writes[i].clen
           /\ h.writes[i + 1].ok => BodyOut(h, i) = h.writes[i].clen

\* the file /r/e of two bytes was served: Content-Length 2, two bytes copied
C11_Witness ==
    /\ h.stage = "Closed"
    /\ Len(h.writes) = 2
    /\ h.writes[1].what = "header" /\ h.writes[1].ok /\ h.writes[1].clen = 2
    /\ h.writes[2].ok /\ h.writes[2].n = 2

----------------------------------------------------------------------------
(* Further claims about the daemon (specification Spec) *)

\* the bytes handed to the connection by one write: everything of the
\* record but what depends on the health of the connection
Handed(wr) ==
    [what |-> wr.what, code |-> wr.code, msg |-> wr.msg,
     headers |-> wr.headers, ctype |-> wr.ctype, clen |-> wr.clen,
     items |-> wr.items]
HandedAll(cr) == [i \in 1..Len(cr.writes) |-> Handed(cr.writes[i])]
Done(c) == conn[c].stage \in {"Served", "Errored", "Closed"}

\* C12: two handleConnection runs on the same request bytes, by whichever
\* workers and whatever else is being handled, hand the same responses to
\* their connections; on connections of the same health the bytes that go
\* out are the same too.
C12_SameRequestSameResponse ==
    \A c1, c2 \in Conns :
      (Done(c1) /\ Done(c2) /\ conn[c1].in.data = conn[c2].in.data) =>
        /\ HandedAll(conn[c1]) = HandedAll(conn[c2])
        /\ conn[c1].stage = "Closed" /\ conn[c2].stage = "Closed" =>
             conn[c1].serveErr = conn[c2].serveErr
        /\ conn[c1].in = conn[c2].in => conn[c1].writes = conn[c2].writes

\* two workers have each served the file /r/e to a connection that sent the
\* same valid request, and neither handler has returned yet
C12_Witness ==
    \E w1, w2 \in Workers :
      /\ w1 # w2
      /\ wpc[w1] = "handle" /\ wpc[w2] = "handle"
      /\ wconn[w1] # wconn[w2]
      /\ conn[wconn[w1]].stage = "Served" /\ conn[wconn[w2]].stage = "Served"
      /\ conn[wconn[w1]].in.data = Get(<<47, 101>>)
      /\ conn[wconn[w2]].in.data = Get(<<47, 101>>)
      /\ StatusCodes(conn[wconn[w1]]) = <<200>>
      /\ conn[wconn[w1]].writes = conn[wconn[w2]].writes

----------------------------------------------------------------------------
(* Further claims about one handleConnection invocation (HandlerSpec) *)

\* the handler listed a directory: os.Stat found one and os.ReadDir read it
Listed(cr) ==
    /\ cr.stage \in {"Served", "Closed"}
    /\ cr.kind = "dir" /\ cr.serveErr = "none"
\* the children of the directory listed, in the order of enumeration
Children(cr) == FS[cr.fullPath].names
\* a listing response of status 200 and type text/html with one item per
\* child, in order, the child's name as text and target(name) as link
ListingWith(cr, target(_)) ==
    /\ Len(cr.writes) = 1
    /\ cr.writes[1].what = "listing"
    /\ cr.writes[1].code = 200 /\ cr.writes[1].ctype = "text/html"
    /\ Len(cr.writes[1].items) = Len(Children(cr))
    /\ \A k \in 1..Len(Children(cr)) :
         /\ cr.writes[1].items[k].text = Children(cr)[k]
         /\ cr.writes[1].items[k].href = target(Children(cr)[k])

\* C13 as stated: each item links to the request path joined with the
\* child's name.
C13_Original ==
    Listed(h) =>
      LET target(name) == Join2(h.path, name)
      IN  ListingWith(h, target)

\* C13 amended: each item links to the request path, less one leading "."
\* if it has one, joined with the child's name.
C13_ListingItems ==
    Listed(h) =>
      LET trimmed == IF h.path # <<>> /\ h.path[1] = 46
                     THEN SubSeq(h.path, 2, Len(h.path)) ELSE h.path
          target(name) == Join2(trimmed, name)
      IN  ListingWith(h, target)

\* GET ./g listed /r/g: its one child e is linked as /g/e
C13_Witness ==
    /\ Listed(h)
    /\ h.path = <<46, 47, 103>>
    /\ h.fullPath = <<47, 114, 47, 103>>
    /\ Len(h.writes[1].items) = 1
    /\ h.writes[1].items[1] = [href |-> <<47, 103, 47, 101>>, text |-> <<101>>]

\* p is the served root or lies below it
InsideRoot(p) ==
    \/ p = <<47, 114>>
    \/ Len(p) > 3 /\ SubSeq(p, 1, 3) = <<47, 114, 47>>

\* C14: the path serveResource queries, and serves from, lies inside the
\* served root, whatever the request path.
C14_Original ==
    h.stats >= 1 => InsideRoot(h.fullPath)

\* GET /%2e%2e/e was answered 200 with the one byte of the file /e, which
\* lies beside the served root /r
C14_Witness ==
    /\ h.stage = "Closed"
    /\ h.in.data = Get(<<47, 37, 50, 101, 37, 50, 101, 47, 101>>)
    /\ h.path = <<47, 46, 46, 47, 101>>
    /\ h.fullPath = <<47, 101>>
    /\ StatusCodes(h) = <<200>>
    /\ h.writes[2].what = "body" /\ h.writes[2].n = 1

----------------------------------------------------------------------------
(* Further claims about the daemon (specification Spec) *)

\* the worker goroutines that are alive: receiving from the channel or
\* inside handleConnection
LiveWorkers == {w \in DOMAIN wpc : wpc[w] \in {"recv", "handle"}}

\* C15: whatever the outcome of a connection, the worker that handled it is
\* back at the receive (or already handling the next connection), every
\* configured worker is alive while the process runs, and the process does
\* not end for it: the process ends only in the accept loop, on a failed
\* accept.
C15_WorkersSurvive ==
    /\ DOMAIN wpc = 1..workers
    /\ proc = "running" => Cardinality(LiveWorkers) = workers
    /\ \A w \in DOMAIN wpc :
         /\ wpc[w] = "recv" <=> wconn[w] = 0
         /\ wpc[w] = "handle" => wconn[w] \in Conns /\ ~conn[wconn[w]].returned
    /\ \A c \in Conns : conn[c].returned => Holders(c) = {}
    /\ proc # "running" => apc \in {"deadline", "check"} /\ aerr

\* the only worker answered 400 to a first connection, which is closed, and
\* is now handling a second one
C15_Witness ==
    /\ workers = 1
    /\ conn[1].returned /\ conn[1].perr = "invalid request format"
    /\ StatusCodes(conn[1]) = <<400>>
    /\ wpc[1] = "handle" /\ wconn[1] = 2
    /\ proc = "running"

\* C16: the deadline of a connection is armed once, by the acceptor, after
\* the accept and before the hand-off; nothing arms it again: not the wait
\* in the hand-off, not the receipt by a worker, not any handler stage.
C16_DeadlineArmedOnce ==
    \A c \in Conns :
      /\ conn[c].deadlines <= 1
      /\ conn[c].stage = "none" => conn[c].deadlines = 0
      /\ (c = aconn /\ apc = "deadline") =>
           conn[c].deadlines = 0 /\ conn[c].recv = 0
      /\ (c = aconn /\ apc \in {"check", "send"}) =>
           conn[c].deadlines = 1 /\ conn[c].recv = 0
      /\ conn[c].recv >= 1 => conn[c].deadlines = 1
      /\ conn[c].stage \notin {"none", "Accepted"} => conn[c].deadlines = 1

\* a first connection went through all stages and is closed, a second one
\* is in the hand-off, not yet received: each had its deadline armed once
C16_Witness ==
    /\ workers = 1
    /\ conn[1].stage = "Closed" /\ conn[1].serveErr = "none"
    /\ conn[1].stats = 1 /\ conn[1].deadlines = 1
    /\ apc = "send" /\ aconn = 2
    /\ conn[2].recv = 0 /\ conn[2].deadlines = 1

----------------------------------------------------------------------------
(* Further claims about one handleConnection invocation (HandlerSpec) *)

\* C17: the stages run in the order parse, validate, resolve, serve, each
\* only after the one before it succeeded: the request is validated only
\* once parsed, the filesystem is queried only for a request that parsed
\* and validated, and a 200 is written only after that and after the
\* query succeeded.
C17_StageOrder ==
    /\ h.verr # "none" => h.reads = 1 /\ h.perr = "nil"
    /\ h.stats >= 1 => h.perr = "nil" /\ h.verr = "nil"
    /\ (h.serveErr # "none" \/ \E i \in 1..Len(h.writes) : h.writes[i].code = 200)
         => h.perr = "nil" /\ h.verr = "nil" /\ h.stats = 1 /\ h.staterr = "nil"
    /\ h.stage = "Accepted" =>
         h.reads = 0 /\ h.verr = "none" /\ h.stats = 0 /\ h.writes = <<>>
    /\ h.stage = "Parsed" =>
         h.reads = 1 /\ h.verr = "none" /\ h.stats = 0 /\ h.writes = <<>>
    /\ h.stage = "Validated" =>
         h.verr = "nil" /\ h.stats = 0 /\ h.writes = <<>>
    /\ h.stage = "Resolved" =>
         h.stats = 1 /\ h.staterr = "nil" /\ h.writes = <<>>
    /\ h.reads <= 1 /\ h.stats <= 1

\* POST / HTTP/1.1 parsed, failed validation and was answered 400; the
\* filesystem was not queried
C17_Witness ==
    /\ h.stage = "Closed"
    /\ h.perr = "nil" /\ h.verr = "method not allowed"
    /\ h.method = <<80, 79, 83, 84>>
    /\ h.stats = 0 /\ h.fullPath = <<>>
    /\ StatusCodes(h) = <<400>>

----------------------------------------------------------------------------
(* Further claims about the daemon (specification Spec) *)

\* C18: a connection is handed at most one status line, exactly one once
\* its handler has served or failed, so before the close; a file response
\* is its header followed by its body, every other response one write; and
\* once the connection is closed nothing more is written to it.
C18_OneResponse ==
    /\ [](\A c \in Conns :
            /\ Len(StatusCodes(conn[c])) <= 1
            /\ conn[c].stage \in {"Served", "Errored", "Closed"} =>
                 /\ Len(StatusCodes(conn[c])) = 1
                 /\ conn[c].writes[1].code # 0
                 /\ Len(conn[c].writes) =
                      IF conn[c].writes[1].what = "header" THEN 2 ELSE 1
            /\ conn[c].stage \in {"none", "Accepted", "Parsed", "Validated",
                                  "Resolved"} =>
                 conn[c].writes = <<>> /\ conn[c].closes = 0
            /\ conn[c].closes >= 1 => conn[c].stage = "Closed")
    /\ [][\A c \in Conns :
            conn[c].closes >= 1 => conn'[c].writes = conn[c].writes]_vars

\* one connection was closed after its 404, then the same worker served a
\* file to the next one and closed it: one status line each
C18_Witness ==
    /\ conn[1].stage = "Closed" /\ StatusCodes(conn[1]) = <<404>>
    /\ Len(conn[1].writes) = 1
    /\ conn[2].stage = "Closed" /\ StatusCodes(conn[2]) = <<200>>
    /\ Len(conn[2].writes) = 2
    /\ workers = 1

----------------------------------------------------------------------------
(* Claims about the daemon under fair scheduling (specification FairSpec) *)

\* C19 as stated: for every worker count, every accepted connection is
\* eventually received by a worker and closed -- unless the process has
\* ended meanwhile.
C19_Original ==
    \A c \in Conns :
      (conn[c].stage = "Accepted") ~>
        (\/ conn[c].recv = 1 /\ conn[c].stage = "Closed"
         \/ proc # "running")

\* C19 for a pool of at least one worker, which is where it holds
C19_WithWorkers ==
    \A c \in Conns :
      (workers >= 1 /\ conn[c].stage = "Accepted") ~>
        (\/ conn[c].recv = 1 /\ conn[c].stage = "Closed"
         \/ proc # "running")

\* workers = 0: the acceptor holds an accepted connection, its deadline
\* armed, in a send that no worker will ever receive
C19_Witness ==
    /\ workers = 0
    /\ proc = "running"
    /\ apc = "send" /\ aconn = 1
    /\ conn[1].stage = "Accepted" /\ conn[1].deadlines = 1
    /\ conn[1].recv = 0
    /\ ~ENABLED Next

----------------------------------------------------------------------------
(* Further claims about the daemon (specification Spec) *)

\* C20: after a failed accept the acceptor does nothing with the connection
\* value it got and ends the process through log.Fatalf: the process never
\* ends in a panic, and when it has ended it was by the fatal exit, on the
\* accept error, with no deadline step taken on the value.
C20_Original ==
    /\ proc # "panic"
    /\ proc # "running" => proc = "fatal" /\ aerr
    /\ aerr => apc # "check"

\* the accept failed while a worker was handling a connection; the deadline
\* call on the nil connection value ended the process in a panic, the
\* err test never reached, the handled connection never closed by its handler
C20_Witness ==
    /\ proc = "panic"
    /\ aerr /\ aconn = 0 /\ apc = "deadline"
    /\ \E w \in Workers :
         /\ wpc[w] = "handle"
         /\ conn[wconn[w]].stage = "Parsed"
         /\ conn[wconn[w]].closes = 0

====
